---- MODULE Spec2Model ----
(***************************************************************************)
(* Model of the blog's markdown-ingestion routine (lib/posts: getAllPostIds,*)
(* getSortedPostsData, getPostData) and of the pages that call it           *)
(* (pages/index.js, pages/posts/[id].js), with the fixed page               *)
(* pages/posts/first-post.js and the API route pages/api/hello.js.          *)
(*                                                                         *)
(* The pages are translated from the source.  lib/posts is imported by the *)
(* pages but its text is not part of the source tree at hand, so its three *)
(* operations are modelled from the specification (sections 3, 4.1, 7).     *)
(***************************************************************************)
EXTENDS Naturals, Sequences, FiniteSets

\* Number of file base names the content directory may hold.
NumIds == 3

\* A PostId is a file base name; 1..NumIds stands for NumIds names in
\* ascending (lexicographic) order: first-post, pre-rendering, ssg-ssr, and
\* later names after them.
PostIds == 1..NumIds

\* The name that pages/posts/first-post.js serves at /posts/first-post.
FirstPost == 1

\* ISO-8601 dates as <<year, month, day>>; the order of the ISO strings is
\* the lexicographic order of the triples.
Dates == {<<2020, 1, 1>>, <<2021, 6, 1>>}

DateLess(a, b) ==
    \/ a[1] < b[1]
    \/ a[1] = b[1] /\ a[2] < b[2]
    \/ a[1] = b[1] /\ a[2] = b[2] /\ a[3] < b[3]

\* Markdown bodies.
Bodies == {"# Hi", "Hi"}

\* A content file: a front-matter block and a markdown body.  fmOk is
\* FALSE when the block's syntax is malformed; data is the key/value
\* mapping the block holds (a function on the keys present).
Absent == [present |-> FALSE]

File(ok, data, body) ==
    [present |-> TRUE, fmOk |-> ok, data |-> data, body |-> body]

ValidFiles ==
    { File(TRUE, [title |-> "T", date |-> d], "# Hi") : d \in Dates }
        \cup { File(TRUE, [title |-> "T", date |-> <<2021, 6, 1>>], "Hi") }

InvalidFiles ==
    { File(TRUE, [title |-> "T"], "# Hi"),
      File(TRUE, [date |-> <<2020, 1, 1>>], "# Hi"),
      File(FALSE, [title |-> "T", date |-> <<2020, 1, 1>>], "# Hi") }

FileContents == ValidFiles \cup InvalidFiles

Directories == [PostIds -> FileContents \cup {Absent}]

----------------------------------------------------------------------------
(* lib/posts, from the specification.                                       *)

\* An operation's outcome: a value, or an error kind; renders counts the
\* markdown-to-HTML conversions the operation performed.
Ok(v, n) == [ok |-> TRUE, value |-> v, renders |-> n]

Err(e) == [ok |-> FALSE, error |-> e, renders |-> 0]

\* Front-matter parsing: the block must be well formed and hold the
\* required fields; the metadata is every field of the block plus the id.
RequiredFields == {"title", "date"}

parseFrontMatter(id, file) ==
    IF ~file.fmOk
    THEN Err("StorageError")
    ELSE IF ~(RequiredFields \subseteq DOMAIN file.data)
    THEN Err("StorageError")
    ELSE Ok([k \in DOMAIN file.data \cup {"id"} |->
                IF k = "id" THEN id ELSE file.data[k]], 0)

\* The listing order: date descending, ties by PostId ascending.
Precedes(a, b) ==
    \/ DateLess(b.date, a.date)
    \/ a.date = b.date /\ a.id < b.id

RECURSIVE SortPosts(_)
SortPosts(S) ==
    IF S = {} THEN <<>>
    ELSE LET first == CHOOSE a \in S : \A b \in S \ {a} : Precedes(a, b)
         IN  <<first>> \o SortPosts(S \ {first})

\* Directory scan, in ascending file-name order.
RECURSIVE ScanFrom(_, _)
ScanFrom(dir, i) ==
    IF i > NumIds THEN <<>>
    ELSE (IF dir[i].present THEN <<i>> ELSE <<>>) \o ScanFrom(dir, i + 1)

fileNames(dir) == ScanFrom(dir, 1)

SeqMap(Op(_), s) == [k \in 1..Len(s) |-> Op(s[k])]

SeqRange(s) == { s[k] : k \in 1..Len(s) }

\* Markdown to HTML.
render(body) ==
    CASE body = "# Hi" -> "<h1>Hi</h1>"
      [] body = "Hi" -> "<p>Hi</p>"
      [] OTHER -> ""

\* files: the content directory; last: the most recent data-function call
\* that has returned; pending: the post getStaticProps suspended at its
\* await; changes: edits made to the directory; seen: the first
\* getPostData result of a post, watched while its file is unchanged;
\* renderCount:
\* markdown renders performed so far; mode: development server or
\* production build; build: the build in progress; site: the last finished
\* build; dev: the development request in progress; response: the answer to
\* the last request; calls: the invocations in flight together.
VARIABLES files, last, pending, changes, seen, renderCount, mode, build, site,
          dev, response, calls

vars == <<files, last, pending, changes, seen, renderCount, mode, build, site,
          dev, response, calls>>

\* listPostIds: one route parameter record per content file.
getAllPostIds ==
    LET param(i) == [params |-> [id |-> i]]
    IN  Ok(SeqMap(param, fileNames(files)), 0)

\* listPostsSortedByDateDesc: parse every file, fail as a whole if one
\* does not parse, sort; never renders.
getSortedPostsData ==
    LET names == SeqRange(fileNames(files))
        parsed == [i \in names |-> parseFrontMatter(i, files[i])]
    IN  IF \E i \in names : ~parsed[i].ok
        THEN Err("StorageError")
        ELSE Ok(SortPosts({ parsed[i].value : i \in names }), 0)

\* A getPostData that looks the post up in the sorted listing of all the
\* posts, and so reads every file of the directory instead of its own.
getPostDataViaListing(id) ==
    IF ~(id \in PostIds /\ files[id].present)
    THEN Err("NotFoundError")
    ELSE LET all == getSortedPostsData
         IN  IF ~all.ok
             THEN Err(all.error)
             ELSE LET m == CHOOSE x \in SeqRange(all.value) : x.id = id
                  IN  Ok([k \in DOMAIN m \cup {"contentHtml"} |->
                            IF k = "contentHtml" THEN render(files[id].body)
                            ELSE m[k]], 1)

\* getPostData: unknown id -> NotFoundError; otherwise parse the front
\* matter and render the body.
getPostData(id) ==
    IF ~(id \in PostIds /\ files[id].present)
    THEN Err("NotFoundError")
    ELSE LET p == parseFrontMatter(id, files[id])
         IN  IF ~p.ok
             THEN Err("StorageError")
             ELSE Ok([k \in DOMAIN p.value \cup {"contentHtml"} |->
                        IF k = "contentHtml" THEN render(files[id].body)
                        ELSE p.value[k]], 1)

----------------------------------------------------------------------------
(* The pages.                                                               *)

\* A getStaticProps/getStaticPaths result: the returned object, or the
\* exception that propagated out of the call.
Returned(obj, n) == [threw |-> FALSE, result |-> obj, renders |-> n]

Threw(e, n) == [threw |-> TRUE, error |-> e, renders |-> n]

\* Variants of the page functions, each with one slip.
\* The listing passed on in directory-scan order instead of sorted.
IndexGetStaticPropsUnsorted ==
    LET allPostsData == getSortedPostsData
        byId(i) == CHOOSE m \in SeqRange(allPostsData.value) : m.id = i
    IN  IF allPostsData.ok
        THEN Returned([props |->
                 [allPostsData |-> SeqMap(byId, fileNames(files))]],
                      allPostsData.renders)
        ELSE Threw(allPostsData.error, allPostsData.renders)

\* Files that do not parse skipped instead of failing the listing.
IndexGetStaticPropsSkipInvalid ==
    LET names == { i \in SeqRange(fileNames(files)) :
                      parseFrontMatter(i, files[i]).ok }
    IN  Returned([props |-> [allPostsData |->
            SortPosts({ parseFrontMatter(i, files[i]).value : i \in names })]],
                 0)

\* The result of the previous run kept and handed out again.
IndexGetStaticPropsCached ==
    IF last.op = "index"
    THEN last.out
    ELSE LET allPostsData == getSortedPostsData
         IN  IF allPostsData.ok
             THEN Returned([props |-> [allPostsData |-> allPostsData.value]],
                           allPostsData.renders)
             ELSE Threw(allPostsData.error, allPostsData.renders)

\* Every listed post fetched with getPostData, so the listing renders.
IndexGetStaticPropsWithContent ==
    LET allPostsData == getSortedPostsData
        full(m) == getPostData(m.id).value
    IN  IF allPostsData.ok
        THEN Returned([props |->
                 [allPostsData |-> SeqMap(full, allPostsData.value)]],
                      Len(allPostsData.value))
        ELSE Threw(allPostsData.error, allPostsData.renders)

\* getStaticProps(params) instead of getStaticProps({ params }): the id
\* read is undefined (0 is no file name).
PostPropsCallNoDestructuring(context) == getPostData(0)

\* The error of getPostData caught and an empty post returned.
PostPropsCatch(postData) ==
    IF postData.ok
    THEN Returned([props |-> [postData |-> postData.value]], postData.renders)
    ELSE Returned([props |-> [postData |-> [title |-> ""]]], postData.renders)

\* fallback: true returned instead of fallback: false.
GetStaticPathsFallbackTrue ==
    LET paths == getAllPostIds
    IN  IF paths.ok
        THEN Returned([paths |-> paths.value, fallback |-> "true"],
                      paths.renders)
        ELSE Threw(paths.error, paths.renders)

\* postData kept in a module-level variable that every invocation
\* overwrites: the continuation wraps the value another pending invocation
\* left there.
PostPropsShared(postData) ==
    LET waiting == { c \in DOMAIN calls : calls[c].pc = "awaiting" }
        shared == IF waiting = {} THEN postData
                  ELSE calls[CHOOSE c \in waiting :
                                \A d \in waiting : d <= c].pending
    IN  IF shared.ok
        THEN Returned([props |-> [postData |-> shared.value]], shared.renders)
        ELSE Threw(shared.error, shared.renders)

\* The list entries linked by position in the list instead of by id.
HomeLinksByIndex(props) ==
    [k \in 1..Len(props.allPostsData) |->
        [key |-> props.allPostsData[k].id,
         href |-> <<"posts", k>>,
         text |-> props.allPostsData[k].title,
         date |-> props.allPostsData[k].date]]

\* pages/index.js getStaticProps.  The function holds no await: it runs
\* from call to return in one piece.
IndexGetStaticProps ==
    LET allPostsData == getSortedPostsData
    IN  IF allPostsData.ok
        THEN Returned([props |-> [allPostsData |-> allPostsData.value]],
                      allPostsData.renders)
        ELSE Threw(allPostsData.error, allPostsData.renders)

\* pages/posts/[id].js getStaticPaths (no await either).  The three values
\* of fallback, false, true and 'blocking', are written as strings.
GetStaticPaths ==
    LET paths == getAllPostIds
    IN  IF paths.ok
        THEN Returned([paths |-> paths.value, fallback |-> "false"],
                      paths.renders)
        ELSE Threw(paths.error, paths.renders)

\* pages/posts/[id].js getStaticProps, up to its await: getPostData is
\* called with params.id and reads the files as they are at the call.
PostPropsCall(context) == getPostData(context.params.id)

\* pages/posts/[id].js getStaticProps, from the point where the awaited
\* getPostData has settled: its value is wrapped, its error propagates.
PostProps(postData) ==
    IF postData.ok
    THEN Returned([props |-> [postData |-> postData.value]], postData.renders)
    ELSE Threw(postData.error, postData.renders)

\* pages/index.js Home: one list entry per element of allPostsData, in
\* order, each a link to /posts/<id> showing the title and the date.
Home(props) ==
    LET entry(m) == [key |-> m.id, href |-> <<"posts", m.id>>,
                     text |-> m.title, date |-> m.date]
    IN  SeqMap(entry, props.allPostsData)

\* pages/posts/[id].js Post: the title, the date and the rendered HTML.
Post(props) ==
    [title |-> props.postData.title, date |-> props.postData.date,
     html |-> props.postData.contentHtml]

\* pages/posts/first-post.js FirstPost: a fixed page with a link home.
FirstPostPage ==
    [title |-> "First Post", h1 |-> "First Post", links |-> <<"/">>]

\* pages/api/hello.js handler.
handler == [status |-> 200, json |-> [text |-> "Hello"]]

\* The framework's routing of /posts/<id>.  The predefined page
\* first-post comes before the dynamic page [id]; for the dynamic page a
\* path getStaticPaths returned gets its page, and any other path gets a
\* 404 page when fallback is false, a fallback page when it is true, and a
\* page rendered on the server with getStaticProps when it is 'blocking'.
Route(staticPaths, id) ==
    IF id = FirstPost THEN "static"
    ELSE IF [params |-> [id |-> id]] \in SeqRange(staticPaths.paths)
    THEN "page"
    ELSE CASE staticPaths.fallback = "false" -> "404"
           [] staticPaths.fallback = "true" -> "fallback"
           [] OTHER -> "blocking"

----------------------------------------------------------------------------
(* The content directory changing, and the data functions running.  last   *)
(* is the most recent call that has returned: which function, its          *)
(* argument, what it gave, and whether the directory is unchanged since    *)
(* the call was made (fresh).  The post page's getStaticProps is suspended *)
(* at its await when the call returns its promise; pending holds it until  *)
(* it continues, and anything else may run in between.                     *)

NoCall == [op |-> "none", fresh |-> FALSE]

NotSeen == [called |-> FALSE]

\* Invocations that may be in flight at once.
MaxCalls == 2

Slots == 1..MaxCalls

NoSite == [built |-> FALSE, fresh |-> FALSE]

NoResponse == [status |-> 0, route |-> "none"]

Idle == [pc |-> "idle"]

\* Something in progress, marked when the directory changes under it.
Touched(p) == IF p.pc = "idle" THEN p ELSE [p EXCEPT !.clean = FALSE]

Quiet ==
    /\ pending = Idle
    /\ changes = 0
    /\ seen = NotSeen
    /\ renderCount = 0
    /\ build = Idle
    /\ site = NoSite
    /\ dev = Idle
    /\ response = NoResponse
    /\ calls = [c \in Slots |-> Idle]

Call(op, arg, out) == [op |-> op, arg |-> arg, out |-> out, fresh |-> TRUE]

Stale(c) == [c EXCEPT !.fresh = FALSE]

Init ==
    /\ files \in Directories
    /\ last = NoCall
    /\ mode = "dev"
    /\ Quiet

\* An edit of the directory.  The result observed before it is dropped; a
\* suspended call keeps the value it read.
WriteFile(id, c) ==
    /\ files[id] # c
    /\ files' = [files EXCEPT ![id] = c]
    /\ last' = NoCall
    /\ pending' = Touched(pending)
    /\ UNCHANGED <<changes, seen, renderCount, mode, build, site, dev,
                   response, calls>>

DeleteFile(id) ==
    /\ files[id].present
    /\ files' = [files EXCEPT ![id] = Absent]
    /\ last' = NoCall
    /\ pending' = Touched(pending)
    /\ UNCHANGED <<changes, seen, renderCount, mode, build, site, dev,
                   response, calls>>

RunIndexProps ==
    /\ last' = Call("index", 0, IndexGetStaticProps)
    /\ UNCHANGED <<files, pending, changes, seen, renderCount, mode, build,
                   site, dev, response, calls>>

RunPaths ==
    /\ last' = Call("paths", 0, GetStaticPaths)
    /\ UNCHANGED <<files, pending, changes, seen, renderCount, mode, build,
                   site, dev, response, calls>>

\* getStaticProps({ params: { id } }) is called: it runs to its await,
\* where getPostData has read the files, and hands back a promise.
RunPostProps(id) ==
    /\ pending.pc = "idle"
    /\ pending' = [pc |-> "awaiting", arg |-> id, clean |-> TRUE,
                   value |-> PostPropsCall([params |-> [id |-> id]])]
    /\ UNCHANGED <<files, last, changes, seen, renderCount, mode, build,
                   site, dev, response, calls>>

\* The suspended getStaticProps continues and its promise settles.
ReturnPostProps ==
    /\ pending.pc = "awaiting"
    /\ last' = [Call("post", pending.arg, PostProps(pending.value))
                   EXCEPT !.fresh = pending.clean]
    /\ pending' = Idle
    /\ UNCHANGED <<files, changes, seen, renderCount, mode, build, site,
                   dev, response, calls>>

Next ==
    \/ \E id \in PostIds, c \in FileContents : WriteFile(id, c)
    \/ \E id \in PostIds : DeleteFile(id)
    \/ RunIndexProps
    \/ RunPaths
    \/ \E id \in PostIds : RunPostProps(id)
    \/ ReturnPostProps

Spec == Init /\ [][Next]_vars

----------------------------------------------------------------------------
(* Properties of the data functions.                                        *)

Present == { i \in PostIds : files[i].present }

Parses(i) == files[i].fmOk /\ RequiredFields \subseteq DOMAIN files[i].data

AllParse == \A i \in Present : Parses(i)

Listing(c) == c.out.result.props.allPostsData

PathIds(c) == { c.out.result.paths[k].params.id :
                    k \in 1..Len(c.out.result.paths) }

\* C1: when every file parses the listing is returned, and every listing
\* handed to the Home page is ordered by date descending, equal dates by
\* ascending PostId.
C1_ListingSorted ==
    last.op = "index" =>
        /\ (last.fresh /\ AllParse) => ~last.out.threw
        /\ ~last.out.threw =>
             \A k \in 1..(Len(Listing(last)) - 1) :
                LET a == Listing(last)[k]
                    b == Listing(last)[k + 1]
                IN  /\ ~DateLess(a.date, b.date)
                    /\ a.date = b.date => a.id < b.id

\* A listing of three posts, two of them sharing a date.
C1_Witness ==
    /\ last.op = "index" /\ ~last.out.threw
    /\ Len(Listing(last)) = 3
    /\ \E k \in 1..2 : Listing(last)[k].date = Listing(last)[k + 1].date
    /\ \E k \in 1..2 : Listing(last)[k].date # Listing(last)[k + 1].date

\* C2, as claimed: listPostIds gives one id per file and getPostData
\* succeeds for each of them, whatever the directory holds.
C2_AsClaimed ==
    /\ (last.op = "paths" /\ last.fresh) =>
          /\ ~last.out.threw
          /\ PathIds(last) = Present
          /\ Len(last.out.result.paths) = Cardinality(Present)
    /\ (last.op = "post" /\ last.fresh /\ last.arg \in Present) =>
          ~last.out.threw

\* C2, amended: listPostIds gives exactly one id per content file, and
\* getPostData succeeds for each returned id whose file parses.
C2_OneIdPerFile ==
    /\ (last.op = "paths" /\ last.fresh) =>
          /\ ~last.out.threw
          /\ PathIds(last) = Present
          /\ Len(last.out.result.paths) = Cardinality(Present)
    /\ (/\ last.op = "post" /\ last.fresh
        /\ last.arg \in Present /\ Parses(last.arg)) =>
          /\ ~last.out.threw
          /\ last.out.result.props.postData.id = last.arg

\* getPostData has succeeded for a listed id while another listed file
\* does not parse.
C2_Witness ==
    /\ last.op = "post" /\ last.fresh /\ ~last.out.threw
    /\ Cardinality(Present) = 3
    /\ \E i \in Present : ~Parses(i)

\* C3: for an id listPostIds does not return, getPostData fails with
\* NotFoundError: nothing is returned and no other error is raised.
C3_UnknownIdNotFound ==
    /\ (last.op = "post" /\ last.fresh /\ last.arg \notin Present) =>
          last.out.threw /\ last.out.error = "NotFoundError"
    /\ (pending.pc = "awaiting" /\ pending.clean
        /\ pending.arg \notin Present) =>
          ~pending.value.ok /\ pending.value.error = "NotFoundError"

\* getPostData was asked for an id with no file, in a directory that
\* holds other posts.
C3_Witness ==
    /\ last.op = "post" /\ last.fresh /\ last.arg \notin Present
    /\ last.out.threw
    /\ Present # {}

\* C4: when a file lacks date or title, or its front matter is malformed,
\* the listing fails as a whole with StorageError; a listing that is
\* returned holds every file of the directory.
C4_ListingFailsWhole ==
    (last.op = "index" /\ last.fresh) =>
        /\ ~AllParse => last.out.threw /\ last.out.error = "StorageError"
        /\ ~last.out.threw =>
              { Listing(last)[k].id : k \in 1..Len(Listing(last)) } = Present

\* The listing has failed in a directory where one file lacks its date
\* and two others parse.
C4_Witness ==
    /\ last.op = "index" /\ last.fresh /\ last.out.threw
    /\ \E i \in Present :
          /\ files[i].fmOk
          /\ "date" \notin DOMAIN files[i].data
          /\ Cardinality({ j \in Present : Parses(j) }) = 2

----------------------------------------------------------------------------
(* The same functions called again and again while the directory is edited *)
(* a bounded number of times, starting from the directory the pages'       *)
(* comments describe: two posts, pre-rendering (2) and ssg-ssr (3).        *)

\* Edits made to the content directory in one run.
MaxChanges == 1

\* Markdown renders counted in one run.
MaxRenders == 3

InitialFiles ==
    [i \in PostIds |->
        IF i = 2 THEN File(TRUE, [title |-> "T", date |-> <<2020, 1, 1>>], "# Hi")
        ELSE IF i = 3
        THEN File(TRUE, [title |-> "T", date |-> <<2021, 6, 1>>], "Hi")
        ELSE Absent]

\* What an edit writes: a post that parses, or one without its date.
EditContents ==
    { File(TRUE, [title |-> "T", date |-> <<2021, 6, 1>>], "# Hi"),
      File(TRUE, [title |-> "T"], "# Hi") }

\* A call that also notes whether it repeats a call whose result went
\* stale (again), and whether its result differs from that one (changed).
Recall(op, arg, out) ==
    LET again == last.op = op /\ last.arg = arg /\ ~last.fresh
    IN  [op |-> op, arg |-> arg, out |-> out, fresh |-> TRUE,
         again |-> again, changed |-> again /\ out # last.out]

\* Another operation has run since the first getPostData of the post
\* watched; rendered notes that it was a fetch of another post that
\* succeeded.
Between(s, except, rendered) ==
    IF s.called /\ s.id # except
    THEN [s EXCEPT !.between = TRUE, !.rendered = @ \/ rendered]
    ELSE s

\* The file of id has changed: if it is the post watched, what was seen of
\* it is forgotten; if not, the post watched has seen another file edited.
Forget(s, id) ==
    IF ~s.called THEN s
    ELSE IF s.id = id THEN NotSeen
    ELSE [s EXCEPT !.edited = TRUE]

\* A suspended fetch when the file of id changes: same records that its
\* own file is as it was at the call.
Disturbed(p, id) ==
    IF p.pc = "idle" THEN p
    ELSE [p EXCEPT !.clean = FALSE, !.same = @ /\ p.arg # id]

LiveInit ==
    /\ files = InitialFiles
    /\ last = NoCall
    /\ mode = "dev"
    /\ Quiet

\* An edit: whatever is in progress (a suspended call, a build, a
\* development request) goes on with what it has read so far.
EditFile(id, c) ==
    /\ changes < MaxChanges
    /\ files[id] # c
    /\ files' = [files EXCEPT ![id] = c]
    /\ changes' = changes + 1
    /\ last' = Stale(last)
    /\ pending' = Disturbed(pending, id)
    /\ build' = Touched(build)
    /\ dev' = Touched(dev)
    /\ seen' = Forget(seen, id)
    /\ site' = [site EXCEPT !.fresh = FALSE]
    /\ UNCHANGED <<renderCount, mode, response, calls>>

RemoveFile(id) ==
    /\ changes < MaxChanges
    /\ files[id].present
    /\ files' = [files EXCEPT ![id] = Absent]
    /\ changes' = changes + 1
    /\ last' = Stale(last)
    /\ pending' = Disturbed(pending, id)
    /\ build' = Touched(build)
    /\ dev' = Touched(dev)
    /\ seen' = Forget(seen, id)
    /\ site' = [site EXCEPT !.fresh = FALSE]
    /\ UNCHANGED <<renderCount, mode, response, calls>>

ListPosts ==
    LET out == IndexGetStaticProps
    IN  /\ last' = Recall("index", 0, out)
        /\ renderCount' = renderCount + out.renders
        /\ seen' = Between(seen, 0, FALSE)
        /\ UNCHANGED <<files, pending, changes, mode, build, site, dev,
                       response, calls>>

ListIds ==
    LET out == GetStaticPaths
    IN  /\ last' = Recall("paths", 0, out)
        /\ renderCount' = renderCount + out.renders
        /\ seen' = Between(seen, 0, FALSE)
        /\ UNCHANGED <<files, pending, changes, mode, build, site, dev,
                       response, calls>>

\* The post page's getStaticProps is called and suspends at its await.
FetchPost(id) ==
    /\ renderCount < MaxRenders
    /\ pending.pc = "idle"
    /\ pending' = [pc |-> "awaiting", arg |-> id, clean |-> TRUE,
                   same |-> TRUE,
                   value |-> PostPropsCall([params |-> [id |-> id]])]
    /\ UNCHANGED <<files, last, changes, seen, renderCount, mode, build,
                   site, dev, response, calls>>

\* It continues.  A result read before the file of its id was edited is
\* no result of that file as it is now, and is not remembered as one.
ReturnPost ==
    /\ pending.pc = "awaiting"
    /\ LET out == PostProps(pending.value)
           id == pending.arg
           others == Between(seen, id, ~out.threw)
       IN  /\ last' = [Recall("post", id, out) EXCEPT !.fresh = pending.clean]
           /\ renderCount' = renderCount + out.renders
           /\ seen' = IF ~pending.same \/ (seen.called /\ seen.id # id)
                      THEN others
                      ELSE IF seen.called
                      THEN [seen EXCEPT !.twice = TRUE]
                      ELSE [called |-> TRUE, id |-> id, first |-> out,
                            twice |-> FALSE, between |-> FALSE,
                            edited |-> FALSE, rendered |-> FALSE]
    /\ pending' = Idle
    /\ UNCHANGED <<files, changes, mode, build, site, dev, response, calls>>

LiveNext ==
    \/ \E id \in PostIds, c \in EditContents : EditFile(id, c)
    \/ \E id \in PostIds : RemoveFile(id)
    \/ ListPosts
    \/ ListIds
    \/ \E id \in PostIds : FetchPost(id)
    \/ ReturnPost

LiveSpec == LiveInit /\ [][LiveNext]_vars

\* C5: getPostData is idempotent: while the file of an id is unchanged,
\* every call for that id gives the same metadata and the same contentHtml
\* as the first one, whatever ran in between: listings, fetches of other
\* posts that rendered, and edits of other files.
C5_PostIdempotent ==
    [][ (/\ pending.pc = "awaiting" /\ pending'.pc = "idle"
         /\ pending.same
         /\ seen.called /\ seen.id = pending.arg) =>
            /\ last'.op = "post" /\ last'.arg = pending.arg
            /\ last'.out = seen.first ]_vars

\* An existing post has been fetched again and rendered, after a listing,
\* a fetch of another post that rendered and an edit of another file, all
\* since its first fetch.
C5_Witness ==
    /\ last.op = "post" /\ last.fresh /\ ~last.out.threw
    /\ seen.called /\ seen.id = last.arg
    /\ seen.twice
    /\ seen.between
    /\ seen.rendered
    /\ seen.edited
    /\ last.out = seen.first

\* What each function gives when derived from the files as they are now.
Derived(op, arg) ==
    CASE op = "index" ->
            IF getSortedPostsData.ok
            THEN Returned([props |->
                     [allPostsData |-> getSortedPostsData.value]], 0)
            ELSE Threw(getSortedPostsData.error, 0)
      [] op = "paths" ->
            Returned([paths |-> getAllPostIds.value, fallback |-> "false"], 0)
      [] op = "post" ->
            IF getPostData(arg).ok
            THEN Returned([props |-> [postData |-> getPostData(arg).value]], 1)
            ELSE Threw(getPostData(arg).error, 0)

\* C6: every call gives the result derived from the content files as they
\* are at the moment of that call, whatever changed or was queried before;
\* no earlier result is handed out again.  (A result is fresh, and a
\* suspended call clean, while the directory is as it was at the moment of
\* the call.)
C6_FreshPerCall ==
    /\ last.fresh => last.out = Derived(last.op, last.arg)
    /\ (pending.pc = "awaiting" /\ pending.clean) =>
          PostProps(pending.value) = Derived("post", pending.arg)

\* The listing has been asked for again after the directory changed, and
\* differs from the one it gave before.
C6_Witness ==
    /\ last.op = "index" /\ last.fresh
    /\ last.again /\ last.changed
    /\ ~last.out.threw

\* C8: a listing call leaves the count of markdown renders unchanged and
\* its result carries no contentHtml; the count moves only for a
\* getPostData call, by one, for the body of the requested id.
C8_ListingNeverRenders ==
    [][ /\ (last'.op = "index" /\ last'.fresh /\ files' = files) =>
              /\ renderCount' = renderCount
              /\ ~last'.out.threw =>
                    \A k \in 1..Len(Listing(last')) :
                        "contentHtml" \notin DOMAIN Listing(last')[k]
        /\ renderCount' # renderCount =>
              /\ last'.op = "post" /\ ~last'.out.threw
              /\ renderCount' = renderCount + 1
              /\ pending.pc = "awaiting" /\ pending.arg = last'.arg
              /\ last'.out.result.props.postData.contentHtml
                    \in { render(b) : b \in Bodies }
              /\ pending.clean =>
                    last'.out.result.props.postData.contentHtml
                        = render(files[last'.arg].body) ]_vars

\* A listing has been returned after a post was rendered.
C8_Witness ==
    /\ last.op = "index" /\ last.fresh /\ ~last.out.threw
    /\ Len(Listing(last)) >= 2
    /\ renderCount >= 1

----------------------------------------------------------------------------
(* The site.  In production getStaticPaths and getStaticProps run at build *)
(* time and requests are served from the build; in development they run on *)
(* every request.  Each of them is a call of its own, the post page's      *)
(* getStaticProps suspends at its await, and the directory may be edited   *)
(* between and inside the calls.                                           *)

SiteInit ==
    /\ files = InitialFiles
    /\ last = NoCall
    /\ mode \in {"dev", "prod"}
    /\ Quiet

\* next build starts: getStaticPaths of the post page gives the paths to
\* pre-render.
BuildPaths ==
    /\ mode = "prod"
    /\ build.pc = "idle"
    /\ LET sp == GetStaticPaths
       IN  build' = IF sp.threw THEN Idle
                    ELSE [pc |-> "ready", clean |-> TRUE,
                          paths |-> sp.result.paths,
                          fallback |-> sp.result.fallback,
                          pages |-> <<>>,
                          index |-> [done |-> FALSE]]
    /\ UNCHANGED <<files, last, pending, changes, seen, renderCount, mode,
                   site, dev, response, calls>>

\* The build runs getStaticProps of the index page and renders Home with
\* its props.  A call that throws fails the build.
BuildIndex ==
    /\ build.pc = "ready"
    /\ ~build.index.done
    /\ LET idx == IndexGetStaticProps
       IN  build' = IF idx.threw THEN Idle
                    ELSE [build EXCEPT !.index =
                            [done |-> TRUE,
                             listing |-> idx.result.props.allPostsData,
                             home |-> Home(idx.result.props)]]
    /\ UNCHANGED <<files, last, pending, changes, seen, renderCount, mode,
                   site, dev, response, calls>>

\* The build calls getStaticProps of the post page for the next path; the
\* call suspends at its await.
BuildPostCall ==
    /\ build.pc = "ready"
    /\ Len(build.pages) < Len(build.paths)
    /\ build' = [pc |-> "awaiting", clean |-> build.clean,
                 paths |-> build.paths, fallback |-> build.fallback,
                 pages |-> build.pages, index |-> build.index,
                 value |-> PostPropsCall(build.paths[Len(build.pages) + 1])]
    /\ UNCHANGED <<files, last, pending, changes, seen, renderCount, mode,
                   site, dev, response, calls>>

\* That call continues, and Post is rendered with its props.
BuildPostReturn ==
    /\ build.pc = "awaiting"
    /\ LET out == PostProps(build.value)
       IN  build' = IF out.threw THEN Idle
                    ELSE [pc |-> "ready", clean |-> build.clean,
                          paths |-> build.paths, fallback |-> build.fallback,
                          pages |-> Append(build.pages,
                                           Post(out.result.props)),
                          index |-> build.index]
    /\ UNCHANGED <<files, last, pending, changes, seen, renderCount, mode,
                   site, dev, response, calls>>

\* Every page is rendered: the build becomes the site served.  whole
\* records that the directory was not edited while the build ran.
BuildFinish ==
    /\ build.pc = "ready"
    /\ build.index.done
    /\ Len(build.pages) = Len(build.paths)
    /\ site' = [built |-> TRUE, fresh |-> build.clean, whole |-> build.clean,
                paths |-> build.paths, fallback |-> build.fallback,
                listing |-> build.index.listing,
                home |-> build.index.home,
                pages |-> build.pages]
    /\ build' = Idle
    /\ UNCHANGED <<files, last, pending, changes, seen, renderCount, mode,
                   dev, response, calls>>

\* A request for /posts/<id> served from the build.
Request(id) ==
    /\ mode = "prod"
    /\ site.built
    /\ LET r == Route(site, id)
       IN  response' =
             CASE r = "static" ->
                    [status |-> 200, route |-> "posts", id |-> id,
                     dev |-> FALSE, kind |-> "static", body |-> FirstPostPage]
               [] r = "page" ->
                    [status |-> 200, route |-> "posts", id |-> id,
                     dev |-> FALSE, kind |-> "post",
                     body |-> site.pages[CHOOSE k \in 1..Len(site.paths) :
                                  site.paths[k].params.id = id]]
               [] r = "404" ->
                    [status |-> 404, route |-> "posts", id |-> id,
                     dev |-> FALSE, kind |-> "notFound"]
               [] OTHER ->
                    [status |-> 200, route |-> "posts", id |-> id,
                     dev |-> FALSE, kind |-> r]
    /\ UNCHANGED <<files, last, pending, changes, seen, renderCount, mode,
                   build, site, dev, calls>>

\* A request for /posts/<id> in development.  first-post is a page of its
\* own; for any other id getStaticPaths of the post page runs first.
DevRequest(id) ==
    /\ mode = "dev"
    /\ dev.pc = "idle"
    /\ LET sp == GetStaticPaths
       IN  IF id = FirstPost
           THEN /\ response' = [status |-> 200, route |-> "posts", id |-> id,
                                dev |-> TRUE, kind |-> "static",
                                body |-> FirstPostPage]
                /\ dev' = dev
           ELSE IF sp.threw
           THEN /\ response' = [status |-> 500, route |-> "posts", id |-> id,
                                dev |-> TRUE, kind |-> sp.error]
                /\ dev' = dev
           ELSE /\ dev' = [pc |-> "routing", id |-> id, clean |-> TRUE,
                           paths |-> sp.result.paths,
                           fallback |-> sp.result.fallback]
                /\ response' = response
    /\ UNCHANGED <<files, last, pending, changes, seen, renderCount, mode,
                   build, site, calls>>

\* The request is routed by the paths returned: for a listed id
\* getStaticProps is called and suspends at its await.
DevRoute ==
    /\ dev.pc = "routing"
    /\ LET r == Route(dev, dev.id)
       IN  IF r = "page"
           THEN /\ dev' = [pc |-> "awaiting", id |-> dev.id,
                           clean |-> dev.clean, paths |-> dev.paths,
                           fallback |-> dev.fallback,
                           value |-> PostPropsCall([params |->
                                                       [id |-> dev.id]])]
                /\ response' = response
           ELSE /\ dev' = Idle
                /\ response' =
                     IF r = "404"
                     THEN [status |-> 404, route |-> "posts", id |-> dev.id,
                           dev |-> TRUE, kind |-> "notFound"]
                     ELSE [status |-> 200, route |-> "posts", id |-> dev.id,
                           dev |-> TRUE, kind |-> r]
    /\ UNCHANGED <<files, last, pending, changes, seen, renderCount, mode,
                   build, site, calls>>

\* getStaticProps continues and the page is rendered with its props.
DevReturn ==
    /\ dev.pc = "awaiting"
    /\ LET out == PostProps(dev.value)
       IN  response' =
             IF out.threw
             THEN [status |-> 500, route |-> "posts", id |-> dev.id,
                   dev |-> TRUE, kind |-> out.error]
             ELSE [status |-> 200, route |-> "posts", id |-> dev.id,
                   dev |-> TRUE, kind |-> "post",
                   body |-> Post(out.result.props)]
    /\ dev' = Idle
    /\ UNCHANGED <<files, last, pending, changes, seen, renderCount, mode,
                   build, site, calls>>

\* A request for /api/hello, in either mode.
ApiHello ==
    /\ response' = [status |-> handler.status, route |-> "api",
                    dev |-> mode = "dev", kind |-> "json",
                    body |-> handler.json]
    /\ UNCHANGED <<files, last, pending, changes, seen, renderCount, mode,
                   build, site, dev, calls>>

SiteNext ==
    \/ \E id \in PostIds, c \in EditContents : EditFile(id, c)
    \/ \E id \in PostIds : RemoveFile(id)
    \/ BuildPaths
    \/ BuildIndex
    \/ BuildPostCall
    \/ BuildPostReturn
    \/ BuildFinish
    \/ \E id \in PostIds : Request(id)
    \/ \E id \in PostIds : DevRequest(id)
    \/ DevRoute
    \/ DevReturn
    \/ ApiHello

SiteSpec == SiteInit /\ [][SiteNext]_vars

BuiltIds == { site.paths[k].params.id : k \in 1..Len(site.paths) }

\* The ids getStaticPaths returned for the request being answered: those of
\* the build in production, those of the request's own call in development.
ListedIds ==
    IF mode = "prod" THEN BuiltIds
    ELSE IF dev.pc = "idle" THEN Present
    ELSE { dev.paths[k].params.id : k \in 1..Len(dev.paths) }

\* C7, as claimed: a request for /posts/<id> gets the 404 page for every
\* id that is not among the paths getStaticPaths returned, and a page only
\* for an id that is among them.
C7_AsClaimed ==
    [][ (response' # response /\ response'.route = "posts") =>
          /\ response'.id \notin ListedIds => response'.status = 404
          /\ response'.status = 200 => response'.id \in ListedIds ]_vars

\* C7, amended: first-post apart, which has a page of its own, a request
\* for /posts/<id> gets the 404 page for every id that is not among the
\* paths getStaticPaths returned, and a post page only for an id that is
\* among them.
C7_UnlistedPathIs404 ==
    [][ (response' # response /\ response'.route = "posts") =>
          /\ (response'.id # FirstPost /\ response'.id \notin ListedIds)
                => response'.status = 404
          /\ response'.kind = "post" =>
                response'.id # FirstPost /\ response'.id \in ListedIds
          /\ response'.id = FirstPost =>
                response'.kind = "static" /\ response'.body = FirstPostPage
        ]_vars

\* The built site has answered 404 for a post whose file was there when
\* the run began and is not among the paths of the build.
C7_Witness ==
    /\ response.status = 404 /\ response.route = "posts" /\ ~response.dev
    /\ site.built /\ site.whole
    /\ response.id # FirstPost
    /\ InitialFiles[response.id].present

\* C10: the Home page has one list entry per element of allPostsData, in
\* the order getSortedPostsData returned, each linking to /posts/<id>; for
\* a site built from an unchanged directory the ids linked are the ids
\* getStaticPaths returned, so every Home link routes to a page and none
\* to 404.
C10_HomeLinksResolve ==
    /\ site.built =>
        /\ Len(site.home) = Len(site.listing)
        /\ \A k \in 1..Len(site.home) :
              site.home[k].href = <<"posts", site.listing[k].id>>
        /\ site.whole =>
              /\ { site.home[k].href[2] : k \in 1..Len(site.home) } = BuiltIds
              /\ \A k \in 1..Len(site.home) :
                    LET r == Route(site, site.home[k].href[2])
                    IN  /\ r \in {"page", "static"}
                        /\ r = "static" <=> site.home[k].href[2] = FirstPost
        /\ site.fresh => site.listing = getSortedPostsData.value
    /\ (build.pc # "idle" /\ build.index.done) =>
          /\ Len(build.index.home) = Len(build.index.listing)
          /\ \A k \in 1..Len(build.index.home) :
                build.index.home[k].href
                    = <<"posts", build.index.listing[k].id>>

\* A site built from three posts whose listing order is not the order of
\* their ids.
C10_Witness ==
    /\ site.built /\ site.whole
    /\ Len(site.home) = 3
    /\ \E k \in 1..2 : site.home[k].key > site.home[k + 1].key

----------------------------------------------------------------------------
(* Invocations in flight together.  An async function runs to its first    *)
(* await in one piece; the post page's getStaticProps awaits getPostData   *)
(* and continues when it has settled.                                      *)

ConcInit ==
    /\ files \in { d \in Directories :
                      \A i \in PostIds :
                          i # FirstPost => d[i] = InitialFiles[i] }
    /\ last = NoCall
    /\ mode = "dev"
    /\ Quiet

StartIndex(c) ==
    /\ calls[c].pc = "idle"
    /\ calls' = [calls EXCEPT ![c] =
                    [pc |-> "done", op |-> "index", arg |-> 0,
                     out |-> IndexGetStaticProps]]
    /\ UNCHANGED <<files, last, pending, changes, seen, renderCount, mode,
                   build, site, dev, response>>

StartPaths(c) ==
    /\ calls[c].pc = "idle"
    /\ calls' = [calls EXCEPT ![c] =
                    [pc |-> "done", op |-> "paths", arg |-> 0,
                     out |-> GetStaticPaths]]
    /\ UNCHANGED <<files, last, pending, changes, seen, renderCount, mode,
                   build, site, dev, response>>

StartPost(c, id) ==
    /\ calls[c].pc = "idle"
    /\ calls' = [calls EXCEPT ![c] =
                    [pc |-> "awaiting", op |-> "post", arg |-> id,
                     pending |-> PostPropsCall([params |-> [id |-> id]])]]
    /\ UNCHANGED <<files, last, pending, changes, seen, renderCount, mode,
                   build, site, dev, response>>

ResumePost(c) ==
    /\ calls[c].pc = "awaiting"
    /\ calls' = [calls EXCEPT ![c] =
                    [pc |-> "done", op |-> "post", arg |-> calls[c].arg,
                     out |-> PostProps(calls[c].pending)]]
    /\ UNCHANGED <<files, last, pending, changes, seen, renderCount, mode,
                   build, site, dev, response>>

\* The caller takes the result; the slot is free again.
Collect(c) ==
    /\ calls[c].pc = "done"
    /\ calls' = [calls EXCEPT ![c] = Idle]
    /\ UNCHANGED <<files, last, pending, changes, seen, renderCount, mode,
                   build, site, dev, response>>

ConcNext ==
    \/ \E c \in Slots : StartIndex(c)
    \/ \E c \in Slots : StartPaths(c)
    \/ \E c \in Slots, id \in PostIds : StartPost(c, id)
    \/ \E c \in Slots : ResumePost(c)
    \/ \E c \in Slots : Collect(c)

ConcSpec == ConcInit /\ [][ConcNext]_vars

\* C9: however the invocations interleave over an unchanged directory,
\* each one that has finished holds the result it would give if run alone,
\* a pending one can always continue and a free slot can always start
\* (none waits on another), and no step of any of them changes the content
\* files or any state outside its own invocation.
C9_CallsIndependent ==
    /\ [](\A c \in Slots :
            /\ calls[c].pc = "done" =>
                  calls[c].out = Derived(calls[c].op, calls[c].arg)
            /\ calls[c].pc = "awaiting" => ENABLED ResumePost(c)
            /\ calls[c].pc = "idle" =>
                  /\ ENABLED StartIndex(c)
                  /\ ENABLED StartPaths(c)
                  /\ \A id \in PostIds : ENABLED StartPost(c, id))
    /\ [][ /\ files' = files
           /\ \A c \in Slots, d \in Slots :
                 (c # d /\ calls'[c] # calls[c]) => calls'[d] = calls[d]
         ]_vars

\* A fetch of one post has finished while a fetch of another is pending.
C9_Witness ==
    \E c \in Slots, d \in Slots :
        /\ calls[c].pc = "done" /\ calls[c].op = "post"
        /\ ~calls[c].out.threw
        /\ calls[d].pc = "awaiting"
        /\ calls[d].arg # calls[c].arg

====
